---- MODULE Spec2Model ----
(***************************************************************************)
(* Model of homework.py: the fitness tracker module (InfoMessage,          *)
(* Training, Running, SportsWalking, Swimming, read_package, main and the  *)
(* driver loop under `if __name__ == '__main__'`).                         *)
(*                                                                         *)
(* Numbers.  Python ints and floats are modelled as exact rationals        *)
(* [n |-> numerator, d |-> denominator], d > 0, in lowest terms.  The      *)
(* float rounding error (about 1e-16 relative) is abstracted away;         *)
(* everything else the arithmetic does (true division, floor division,     *)
(* ZeroDivisionError, the order of the operations) is kept.                *)
(*                                                                         *)
(* Exceptions.  An operation that raises returns an exception record       *)
(* [exc, args, raised_in]; every arithmetic operator propagates an         *)
(* exception operand, the way an exception unwinds through an expression.  *)
(***************************************************************************)
EXTENDS Integers, Sequences, FiniteSets, TLC

VARIABLES
    npackages,   \* len(packages), the batch the driver loops over
    idx,         \* number of packages the for statement has taken so far
    pc,          \* "read", "main", "done" or "crashed"
    package,     \* (workout_type, data) of the current iteration
    training,    \* module-level name `training`
    info,        \* local `info` of main(): the last InfoMessage built
    stdout,      \* last line handed to print()
    printed,     \* number of lines printed so far
    constructed, \* number of Training objects whose __init__ body has run
    computed,    \* metrics show_training_info evaluated in this iteration
    error        \* the uncaught exception that ended the program, or None

vars == <<npackages, idx, pc, package, training, info, stdout, printed,
          constructed, computed, error>>

\* ------------------------------------------------------------------ bounds
MaxPackages == 2
MaxData == 5

\* ------------------------------------------------------------- arithmetic
None == [none |-> TRUE]

IsErr(v) == "exc" \in DOMAIN v

Abs(i) == IF i < 0 THEN -i ELSE i

RECURSIVE GCD(_, _)
GCD(a, b) == IF b = 0 THEN a ELSE GCD(b, a % b)

\* the number n/d (d # 0) in lowest terms with a positive denominator
R(n, d) ==
    LET g == GCD(Abs(n), Abs(d))
        s == IF d < 0 THEN -1 ELSE 1
    IN  [n |-> s * (n \div g), d |-> s * (d \div g)]

Num(i) == [n |-> i, d |-> 1]

Exception(name, args) == [exc |-> name, args |-> args, raised_in |-> ""]

\* innermost traceback frame of an exception leaving function `name`
In(name, v) ==
    IF IsErr(v) /\ v.raised_in = "" THEN [v EXCEPT !.raised_in = name] ELSE v

PyMul(a, b) ==
    IF IsErr(a) THEN a ELSE IF IsErr(b) THEN b
    ELSE LET g1 == GCD(Abs(a.n), b.d)
             g2 == GCD(Abs(b.n), a.d)
         IN  R((a.n \div g1) * (b.n \div g2), (a.d \div g2) * (b.d \div g1))

PyAdd(a, b) ==
    IF IsErr(a) THEN a ELSE IF IsErr(b) THEN b
    ELSE R(a.n * b.d + b.n * a.d, a.d * b.d)

PySub(a, b) ==
    IF IsErr(a) THEN a ELSE IF IsErr(b) THEN b
    ELSE R(a.n * b.d - b.n * a.d, a.d * b.d)

\* a / b
PyTrueDivZeroAsZero(a, b) ==
    IF IsErr(a) THEN a ELSE IF IsErr(b) THEN b
    ELSE IF b.n = 0 THEN Num(0)
    ELSE PyMul(a, R(b.d, b.n))

PyTrueDiv(a, b) ==
    IF IsErr(a) THEN a ELSE IF IsErr(b) THEN b
    ELSE IF b.n = 0 THEN Exception("ZeroDivisionError", <<"division by zero">>)
    ELSE PyMul(a, R(b.d, b.n))

\* a // b: the floor of the quotient, as a float
PyFloorDivAsTrueDiv(a, b) == PyTrueDiv(a, b)

PyFloorDiv(a, b) ==
    IF IsErr(a) THEN a ELSE IF IsErr(b) THEN b
    ELSE IF b.n = 0
         THEN Exception("ZeroDivisionError", <<"float floor division by zero">>)
    ELSE LET q == PyMul(a, R(b.d, b.n))
             f == q.n \div q.d
         IN  Num(IF f * q.d > q.n THEN f - 1 ELSE f)

\* a ** k for a literal exponent k >= 0
RECURSIVE PyPow(_, _)
PyPow(a, k) == IF k = 0 THEN Num(1) ELSE PyMul(a, PyPow(a, k - 1))

\* raise v
PyRaise(v) ==
    IF IsErr(v) THEN v
    ELSE Exception("TypeError", <<"exceptions must derive from BaseException">>)

\* sep.join(keys), a string as its sequence of pieces
RECURSIVE Join(_, _)
Join(sep, keys) ==
    IF Len(keys) = 0 THEN <<>>
    ELSE IF Len(keys) = 1 THEN <<keys[1]>>
    ELSE <<keys[1], sep>> \o Join(sep, Tail(keys))

\* '{:.3f}'.format(x): x in thousandths, rounded to the nearest.  A decimal
\* tie is in general not a binary float, so the side it falls on depends
\* on the float's last bit, which the rational does not carry: both sides.
Format3f(x) ==
    LET f == x.n \div x.d
        whole == IF f * x.d > x.n THEN f - 1 ELSE f
        frac == x.n - whole * x.d
        q == whole * 1000 + ((frac * 1000) \div x.d)
        r == (frac * 1000) % x.d
    IN  IF 2 * r < x.d THEN {q}
        ELSE IF 2 * r > x.d THEN {q + 1}
        ELSE {q, q + 1}

\* ------------------------------------------------------------ InfoMessage
InfoMessage(training_type, duration, distance, speed, calories) ==
    [training_type |-> training_type, duration |-> duration,
     distance |-> distance, speed |-> speed, calories |-> calories]

\* MESSAGE.format(**asdict(self)): the lines the template can produce, the
\* four numbers in thousandths
get_message(self) ==
    { [training_type |-> self.training_type, duration |-> du,
       distance |-> di, speed |-> sp, calories |-> ca] :
         du \in Format3f(self.duration), di \in Format3f(self.distance),
         sp \in Format3f(self.speed), ca \in Format3f(self.calories) }

\* --------------------------------------------------------------- Training
M_IN_KM == 1000
MIN_IN_HOUR == 60

Training_LEN_STEP == R(65, 100)

Swimming_LEN_STEP_inherited == Training_LEN_STEP

Swimming_LEN_STEP == R(138, 100)

LEN_STEP(self) ==
    IF self.cls = "Swimming" THEN Swimming_LEN_STEP ELSE Training_LEN_STEP

Training_init(cls, action, duration, weight) ==
    [cls |-> cls, action |-> action, duration_h |-> duration,
     weight_kg |-> weight,
     duration_in_min |-> PyMul(duration, Num(MIN_IN_HOUR))]

get_distance(self) ==
    In("get_distance",
       PyTrueDiv(PyMul(self.action, LEN_STEP(self)), Num(M_IN_KM)))

Training_get_mean_speed(self) ==
    In("get_mean_speed", PyTrueDiv(get_distance(self), self.duration_h))

\* ---------------------------------------------------------------- Swimming
Swimming_init(action, duration, weight, length_pool, count_pool) ==
    [f \in {"length_pool_m", "count_pool"} |->
        IF f = "length_pool_m" THEN length_pool ELSE count_pool]
    @@ Training_init("Swimming", action, duration, weight)

Swimming_get_mean_speed_inherited(self) == Training_get_mean_speed(self)

Swimming_get_mean_speed(self) ==
    In("get_mean_speed",
       PyTrueDiv(PyTrueDiv(PyMul(self.length_pool_m, self.count_pool),
                           Num(M_IN_KM)),
                 self.duration_h))

get_mean_speed(self) ==
    IF self.cls = "Swimming" THEN Swimming_get_mean_speed(self)
    ELSE Training_get_mean_speed(self)

CALORIES_SWIMMING_COEFFICIENT_1 == R(11, 10)
CALORIES_SWIMMING_COEFFICIENT_2 == 2

Swimming_get_spent_calories(self) ==
    In("get_spent_calories",
       PyMul(PyMul(PyAdd(get_mean_speed(self), CALORIES_SWIMMING_COEFFICIENT_1),
                   Num(CALORIES_SWIMMING_COEFFICIENT_2)),
             self.weight_kg))

\* ----------------------------------------------------------------- Running
CALORIES_RUN_COEFFICIENT_1 == 18
CALORIES_RUN_COEFFICIENT_2_pasted == CALORIES_RUN_COEFFICIENT_1
CALORIES_RUN_COEFFICIENT_2 == 20

Running_get_spent_calories_per_hour(self) ==
    LET calories_per_min ==
            PyTrueDiv(
                PyMul(PySub(PyMul(Num(CALORIES_RUN_COEFFICIENT_1),
                                  get_mean_speed(self)),
                            Num(CALORIES_RUN_COEFFICIENT_2)),
                      self.weight_kg),
                Num(M_IN_KM))
    IN  In("get_spent_calories", PyMul(calories_per_min, self.duration_h))

Running_get_spent_calories(self) ==
    LET calories_per_min ==
            PyTrueDiv(
                PyMul(PySub(PyMul(Num(CALORIES_RUN_COEFFICIENT_1),
                                  get_mean_speed(self)),
                            Num(CALORIES_RUN_COEFFICIENT_2)),
                      self.weight_kg),
                Num(M_IN_KM))
    IN  In("get_spent_calories", PyMul(calories_per_min, self.duration_in_min))

\* ----------------------------------------------------------- SportsWalking
CALORIES_WALKING_COEFFICIENT_1 == R(35, 1000)
CALORIES_WALKING_COEFFICIENT_2 == 2
CALORIES_WALKING_COEFFICIENT_3 == R(29, 1000)

SportsWalking_init_validating(action, duration, weight, height) ==
    IF height.n <= 0
    THEN In("__init__", Exception("ValueError", <<"height must be positive">>))
    ELSE [f \in {"height_cm"} |-> height]
         @@ Training_init("SportsWalking", action, duration, weight)

SportsWalking_init(action, duration, weight, height) ==
    [f \in {"height_cm"} |-> height]
    @@ Training_init("SportsWalking", action, duration, weight)

\* ** binds tighter than //: (speed ** 2) // height
SportsWalking_get_spent_calories(self) ==
    LET calories_per_min ==
            PyAdd(PyMul(CALORIES_WALKING_COEFFICIENT_1, self.weight_kg),
                  PyMul(PyMul(PyFloorDiv(PyPow(get_mean_speed(self),
                                               CALORIES_WALKING_COEFFICIENT_2),
                                         self.height_cm),
                              CALORIES_WALKING_COEFFICIENT_3),
                        self.weight_kg))
    IN  In("get_spent_calories", PyMul(calories_per_min, self.duration_in_min))

get_spent_calories(self) ==
    CASE self.cls = "Running" -> Running_get_spent_calories(self)
      [] self.cls = "SportsWalking" -> SportsWalking_get_spent_calories(self)
      [] self.cls = "Swimming" -> Swimming_get_spent_calories(self)

\* the metrics in the order show_training_info evaluates its arguments
Metrics(self) ==
    <<[name |-> "distance", value |-> get_distance(self)],
      [name |-> "speed", value |-> get_mean_speed(self)],
      [name |-> "calories", value |-> get_spent_calories(self)]>>

\* InfoMessage, or the exception of the first argument that raises
show_training_info(self) ==
    LET m == Metrics(self)
    IN  IF \E i \in DOMAIN m : IsErr(m[i].value)
        THEN LET first == CHOOSE i \in DOMAIN m :
                              /\ IsErr(m[i].value)
                              /\ \A j \in 1..(i - 1) : ~IsErr(m[j].value)
             IN  m[first].value
        ELSE InfoMessage(self.cls, self.duration_h,
                         m[1].value, m[2].value, m[3].value)

\* the arguments show_training_info has evaluated when it returns or raises
Evaluated(self) ==
    LET m == Metrics(self)
    IN  { m[i].name : i \in { k \in DOMAIN m :
                                \A j \in 1..k : ~IsErr(m[j].value) } }

\* ------------------------------------------------- dispatch and the driver
WORKOUT_TYPES_keys == <<"SWM", "RUN", "WLK">>

WORKOUT_TYPES ==
    ("SWM" :> "Swimming") @@ ("RUN" :> "Running") @@ ("WLK" :> "SportsWalking")

\* positional parameters of cls.__init__ after self
InitParams(cls) ==
    CASE cls = "Running" -> <<"action", "duration", "weight">>
      [] cls = "SportsWalking" -> <<"action", "duration", "weight", "height">>
      [] cls = "Swimming" ->
             <<"action", "duration", "weight", "length_pool", "count_pool">>

\* cls(*data): the arguments are bound before the body of __init__ runs
PyCallExtraIgnored(cls, data) ==
    IF Len(data) < Len(InitParams(cls))
    THEN In("read_package",
            Exception("TypeError", <<"__init__()", "positional arguments">>))
    ELSE CASE cls = "Running" ->
                  Training_init("Running", data[1], data[2], data[3])
           [] cls = "SportsWalking" ->
                  SportsWalking_init(data[1], data[2], data[3], data[4])
           [] cls = "Swimming" ->
                  Swimming_init(data[1], data[2], data[3], data[4], data[5])

PyCall(cls, data) ==
    IF Len(data) # Len(InitParams(cls))
    THEN In("read_package",
            Exception("TypeError", <<"__init__()", "positional arguments">>))
    ELSE CASE cls = "Running" ->
                  Training_init("Running", data[1], data[2], data[3])
           [] cls = "SportsWalking" ->
                  SportsWalking_init(data[1], data[2], data[3], data[4])
           [] cls = "Swimming" ->
                  Swimming_init(data[1], data[2], data[3], data[4], data[5])

\* the Training object, or the exception that leaves read_package
read_package(workout_type, data) ==
    IF workout_type \notin DOMAIN WORKOUT_TYPES
    THEN LET acceptable_types_training == Join(", ", WORKOUT_TYPES_keys)
         IN  In("read_package",
                PyRaise([str |-> <<"unknown workout type - ", workout_type,
                                   ".", "acceptable values - ">>
                                 \o acceptable_types_training]))
    ELSE PyCall(WORKOUT_TYPES[workout_type], data)

\* ------------------------------------------------------------------ inputs
Codes == {"SWM", "RUN", "WLK", "XYZ"}

\* values the driver is fed at each position of `data`
Field(k) ==
    CASE k = 1 -> {Num(720), Num(9000), Num(15000)}
      [] k = 2 -> {Num(-1), Num(0), Num(1), R(1, 2)}
      [] k = 3 -> {Num(75), Num(80)}
      [] k = 4 -> {Num(-2), Num(0), Num(2), Num(25), Num(180)}
      [] k = 5 -> {Num(1), Num(40)}
      [] OTHER -> {Num(0)}

RECURSIVE DataOfLen(_)
DataOfLen(k) ==
    IF k = 0 THEN {<<>>}
    ELSE { Append(d, v) : d \in DataOfLen(k - 1), v \in Field(k) }

Data == UNION { DataOfLen(k) : k \in 2..MaxData }

\* ----------------------------------------------------------------- actions
Init ==
    /\ npackages \in 0..MaxPackages
    /\ idx = 0
    /\ pc = "read"
    /\ package = None
    /\ training = None
    /\ info = None
    /\ stdout = None
    /\ printed = 0
    /\ constructed = 0
    /\ computed = {}
    /\ error = None

\* no handler anywhere: the exception ends the program
PropagateCaughtAndContinue(e) ==
    /\ pc' = "read"
    /\ error' = e

Propagate(e) ==
    /\ pc' = "crashed"
    /\ error' = e

\* for workout_type, data in packages: training = read_package(...)
ReadPackage ==
    /\ pc = "read"
    /\ idx < npackages
    /\ \E workout_type \in Codes, data \in Data :
         LET r == read_package(workout_type, data)
         IN  /\ idx' = idx + 1
             /\ package' = [workout_type |-> workout_type, data |-> data]
             /\ computed' = {}
             /\ IF IsErr(r)
                THEN /\ Propagate(r)
                     /\ UNCHANGED <<training, constructed>>
                ELSE /\ training' = r
                     /\ constructed' = constructed + 1
                     /\ pc' = "main"
                     /\ UNCHANGED error
    /\ UNCHANGED <<npackages, info, stdout, printed>>

\* main(training)
Main ==
    /\ pc = "main"
    /\ LET r == show_training_info(training)
       IN  /\ computed' = Evaluated(training)
           /\ IF IsErr(r)
              THEN /\ Propagate(r)
                   /\ UNCHANGED <<info, stdout, printed>>
              ELSE /\ info' = r
                   /\ stdout' \in get_message(r)
                   /\ printed' = printed + 1
                   /\ pc' = "read"
                   /\ UNCHANGED error
    /\ UNCHANGED <<npackages, idx, package, training, constructed>>

\* the for statement finds packages exhausted
Finish ==
    /\ pc = "read"
    /\ idx = npackages
    /\ pc' = "done"
    /\ UNCHANGED <<npackages, idx, package, training, info, stdout, printed,
                   constructed, computed, error>>

Next == ReadPackage \/ Main \/ Finish

Spec == Init /\ [][Next]_vars

\* ============================================================== properties
\* exact arithmetic of the stated formulas, on operands that are numbers
QMul(a, b) == R(a.n * b.n, a.d * b.d)
QDiv(a, b) == R(a.n * b.d, a.d * b.n)
QAdd(a, b) == R(a.n * b.d + b.n * a.d, a.d * b.d)
QSub(a, b) == R(a.n * b.d - b.n * a.d, a.d * b.d)
QFloor(a) == (a.n - (a.n % a.d)) \div a.d
QLeq(a, b) == a.n * b.d <= b.n * a.d
QAbs(a) == [n |-> Abs(a.n), d |-> a.d]
Approx(x, target, tol) == QLeq(QAbs(QSub(x, target)), tol)

\* the for statement has taken a package
Started == idx >= 1
\* main() is not in progress: it has returned, or the program has crashed
Settled == Started /\ pc # "main"
\* main() has returned for the current package: its report line is printed
Reported == Started /\ pc \in {"read", "done"}
Is(code) == Started /\ package.workout_type = code
KnownCode == Started /\ package.workout_type \in {"SWM", "RUN", "WLK"}
RequiredArity == ("RUN" :> 3) @@ ("WLK" :> 4) @@ ("SWM" :> 5)
WellFormed ==
    KnownCode /\ Len(package.data) = RequiredArity[package.workout_type]
Arg(k) == package.data[k]

\* C1: an unknown workout-type code makes read_package fail with an error
\* whose content lists the accepted codes, and no Workout is constructed.
C1_UnknownTypeErrorListsCodes ==
    (Started /\ ~KnownCode) =>
        /\ pc = "crashed"
        /\ constructed = idx - 1
        /\ \A c \in {"SWM", "RUN", "WLK"} :
               \E i \in DOMAIN error.args : error.args[i] = c

\* C2: a known code with a number of values other than the variant's arity
\* (RUN 3, WLK 4, SWM 5) fails in read_package with the call's TypeError,
\* before any object is built, any metric computed or anything printed.
C2_ArityMismatchFailsFirst ==
    (KnownCode /\ Len(package.data) # RequiredArity[package.workout_type]) =>
        /\ pc = "crashed"
        /\ error.exc = "TypeError"
        /\ error.raised_in = "read_package"
        /\ constructed = idx - 1
        /\ computed = {}
        /\ printed = idx - 1

C2_Witness ==
    /\ Is("RUN") /\ Len(package.data) = 2
    /\ idx = 2 /\ printed = 1
    /\ pc = "crashed"

\* C3 as stated: an error in one package aborts that package only, so the
\* driver stops only when every package of the batch has been taken.
C3_LaterPackagesStillProcessed ==
    pc \in {"done", "crashed"} => idx = npackages

\* C3 amended: an error raised while processing one package ends the whole
\* driver loop: it is never caught, the package's line is not printed and
\* no later package is read.
C3_ErrorEndsTheBatch ==
    error # None =>
        /\ pc = "crashed"
        /\ ~ENABLED Next
        /\ printed = idx - 1

C3_Witness ==
    /\ error # None
    /\ Started /\ idx < npackages

\* C4: for Running with durationHours > 0 the calories are
\* (18 * meanSpeed - 20) * weightKg / 1000 * durationHours * 60 with
\* meanSpeed = actionCount * 0.65 / 1000 / durationHours.
C4_RunningCalories ==
    (Reported /\ Is("RUN") /\ Arg(2).n > 0) =>
        LET meanSpeed == QDiv(QDiv(QMul(Arg(1), R(65, 100)), Num(1000)), Arg(2))
        IN  /\ info.speed = meanSpeed
            /\ info.calories =
                   QMul(QMul(QDiv(QMul(QSub(QMul(Num(18), meanSpeed), Num(20)),
                                       Arg(3)),
                                  Num(1000)),
                             Arg(2)),
                        Num(60))

C4_Witness ==
    /\ Reported /\ Is("RUN") /\ Arg(2) = R(1, 2)
    /\ info.training_type = "Running"
    /\ info.calories.n > 0

\* C5 as stated: ('RUN', [15000, 1, 75]) reports distance 9.75, mean speed
\* 9.75 and calories approximately 7920.0.
C5_RunReport7920 ==
    (Reported /\ Is("RUN") /\ package.data = <<Num(15000), Num(1), Num(75)>>) =>
        /\ info.distance = R(975, 100)
        /\ info.speed = R(975, 100)
        /\ Approx(info.calories, Num(7920), R(1, 2))

\* C5 amended: ('RUN', [15000, 1, 75]) reports distance 9.75, mean speed
\* 9.75 and calories 699.75 (printed 699.750).
C5_RunReport ==
    (Reported /\ Is("RUN") /\ package.data = <<Num(15000), Num(1), Num(75)>>) =>
        /\ info.distance = R(975, 100)
        /\ info.speed = R(975, 100)
        /\ info.calories = R(69975, 100)
        /\ stdout = [training_type |-> "Running", duration |-> 1000,
                     distance |-> 9750, speed |-> 9750, calories |-> 699750]

C5_Witness ==
    /\ Reported /\ Is("RUN") /\ package.data = <<Num(15000), Num(1), Num(75)>>
    /\ stdout.training_type = "Running"

\* C6 as stated: ('SWM', [720, 1, 80, 25, 40]) reports distance
\* approximately 0.468, mean speed 1.0 and calories approximately 336.0.
C6_SwimReportDistance468 ==
    (Reported /\ Is("SWM")
       /\ package.data = <<Num(720), Num(1), Num(80), Num(25), Num(40)>>) =>
        /\ Approx(info.distance, R(468, 1000), R(1, 2000))
        /\ info.speed = Num(1)
        /\ Approx(info.calories, Num(336), R(1, 2000))

\* C6 amended: ('SWM', [720, 1, 80, 25, 40]) reports distance approximately
\* 0.994 (720 * 1.38 / 1000 = 0.9936), mean speed 1.0 and calories
\* approximately 336.0.
C6_SwimReport ==
    (Reported /\ Is("SWM")
       /\ package.data = <<Num(720), Num(1), Num(80), Num(25), Num(40)>>) =>
        /\ Approx(info.distance, R(9936, 10000), R(1, 2000))
        /\ info.speed = Num(1)
        /\ Approx(info.calories, Num(336), R(1, 2000))
        /\ stdout = [training_type |-> "Swimming", duration |-> 1000,
                     distance |-> 994, speed |-> 1000, calories |-> 336000]

C6_Witness ==
    /\ Reported /\ Is("SWM")
    /\ package.data = <<Num(720), Num(1), Num(80), Num(25), Num(40)>>
    /\ stdout.training_type = "Swimming"

\* meanSpeed^2 / heightCm of the current (SportsWalking) package, undivided
WalkingRatio ==
    LET meanSpeed == QDiv(QDiv(QMul(Arg(1), R(65, 100)), Num(1000)), Arg(2))
    IN  QDiv(QMul(meanSpeed, meanSpeed), Arg(4))

\* C7: for SportsWalking with durationHours > 0 and heightCm > 0 the
\* calories are (0.035 * weightKg + floor(meanSpeed^2 / heightCm) * 0.029 *
\* weightKg) * durationHours * 60, a floor and not a true division; and
\* ('WLK', [9000, 1, 75, 180]) reports distance 5.85, mean speed 5.85 and
\* the calories of this formula (157.5).
C7_WalkingCalories ==
    (Reported /\ Is("WLK") /\ Arg(2).n > 0 /\ Arg(4).n > 0) =>
        /\ info.calories =
               QMul(QMul(QAdd(QMul(R(35, 1000), Arg(3)),
                              QMul(QMul(Num(QFloor(WalkingRatio)), R(29, 1000)),
                                   Arg(3))),
                         Arg(2)),
                    Num(60))
        /\ package.data = <<Num(9000), Num(1), Num(75), Num(180)>> =>
               /\ info.distance = R(585, 100)
               /\ info.speed = R(585, 100)
               /\ info.calories = R(1575, 10)

\* a walk whose floor-divided term is not zero and differs from the quotient
C7_Witness ==
    /\ Reported /\ Is("WLK") /\ Arg(2).n > 0 /\ Arg(4).n > 0
    /\ QFloor(WalkingRatio) >= 1
    /\ Num(QFloor(WalkingRatio)) # WalkingRatio
    /\ info.training_type = "SportsWalking"

\* C8: Swimming's mean speed is poolLengthM * poolLapCount / 1000 /
\* durationHours; two Swimming workouts that differ only in actionCount
\* have the same mean speed and the same calories ((meanSpeed + 1.1) * 2 *
\* weightKg), while the distance is actionCount * 1.38 / 1000.
C8_SwimmingSpeedIgnoresAction ==
    (Reported /\ Is("SWM")) =>
        LET meanSpeed == QDiv(QDiv(QMul(Arg(4), Arg(5)), Num(1000)), Arg(2))
        IN  /\ info.speed = meanSpeed
            /\ info.calories =
                   QMul(QMul(QAdd(meanSpeed, R(11, 10)), Num(2)), Arg(3))
            /\ info.distance = QDiv(QMul(Arg(1), R(138, 100)), Num(1000))
            /\ \A a \in Field(1) :
                 LET other == show_training_info([training EXCEPT !.action = a])
                 IN  /\ other.speed = info.speed
                     /\ other.calories = info.calories

C8_Witness ==
    /\ Reported /\ Is("SWM")
    /\ info.speed.n > 0
    /\ \E a \in Field(1) :
         show_training_info([training EXCEPT !.action = a]).distance
             # info.distance

\* C9 as stated: for every variant a workout built with durationHours <= 0
\* ends in a division by zero that propagates; no report is produced.
C9_NonPositiveDurationIsFatal ==
    (Settled /\ WellFormed /\ Arg(2).n <= 0) =>
        /\ pc = "crashed"
        /\ error.exc = "ZeroDivisionError"
        /\ printed = idx - 1

\* C9 amended: for every variant a workout built with durationHours = 0 is
\* constructed, and get_mean_speed then raises ZeroDivisionError, which
\* nothing catches: no report is produced.  A negative durationHours raises
\* nothing: the report is produced, with that negative duration in it
\* (unless the workout is a SportsWalking with heightCm = 0).
C9_ZeroDurationIsFatal ==
    (Settled /\ WellFormed) =>
        /\ constructed = idx
        /\ Arg(2).n = 0 =>
               /\ pc = "crashed"
               /\ error.exc = "ZeroDivisionError"
               /\ error.raised_in = "get_mean_speed"
               /\ computed = {"distance"}
               /\ printed = idx - 1
        /\ (Arg(2).n < 0 /\ ~(Is("WLK") /\ Arg(4).n = 0)) =>
               /\ Reported
               /\ printed = idx
               /\ info.duration = Arg(2)

C9_Witness ==
    /\ Settled /\ WellFormed /\ Arg(2).n = 0
    /\ pc = "crashed"
    /\ error.exc = "ZeroDivisionError"

\* a SportsWalking with heightCm <= 0 or a Swimming with poolLengthM <= 0
NonPositiveExtra ==
    /\ WellFormed
    /\ Is("WLK") \/ Is("SWM")
    /\ Arg(4).n <= 0

\* C10 as stated: a SportsWalking with heightCm <= 0 or a Swimming with
\* poolLengthM <= 0 is constructed without error, and evaluating the
\* report's formulas then fails: no report is produced.
C10_NonPositiveExtraFailsDownstream ==
    (Settled /\ NonPositiveExtra) =>
        /\ constructed = idx
        /\ pc = "crashed"
        /\ error.raised_in \in {"get_mean_speed", "get_spent_calories"}
        /\ printed = idx - 1

\* C10 amended: such a workout is constructed without error.  Only
\* heightCm = 0 fails downstream (ZeroDivisionError in get_spent_calories,
\* no report).  A negative heightCm and a non-positive poolLengthM raise
\* nothing: the report is produced whenever durationHours is not 0.
C10_OnlyZeroHeightFailsDownstream ==
    NonPositiveExtra =>
        /\ constructed = idx
        /\ (Settled /\ Arg(2).n # 0 /\ Is("WLK") /\ Arg(4).n = 0) =>
               /\ pc = "crashed"
               /\ error.exc = "ZeroDivisionError"
               /\ error.raised_in = "get_spent_calories"
               /\ computed = {"distance", "speed"}
               /\ printed = idx - 1
        /\ (Settled /\ Arg(2).n # 0 /\ ~(Is("WLK") /\ Arg(4).n = 0)) =>
               /\ Reported
               /\ printed = idx

C10_Witness ==
    /\ Settled /\ NonPositiveExtra
    /\ Is("WLK") /\ Arg(4).n = 0
    /\ pc = "crashed"
    /\ error.raised_in = "get_spent_calories"

====
